---- MODULE Spec2Model ----
(***************************************************************************)
(* Model of run_playwright.py: one capture run of the browser probe.       *)
(* main() is a coroutine; the driver's callbacks (dialog, console,         *)
(* request, requestfailed, response) run only while main() is suspended    *)
(* at an await.  Strings are sequences of tokens, so that Python's         *)
(* substring test `a in b` is a contiguous-subsequence test.               *)
(***************************************************************************)
EXTENDS Integers, Sequences, FiniteSets, TLC

----------------------------------------------------------------------------
(* Bounds of the model *)

\* callbacks the driver delivers in one run
MaxEvents == 2
\* frames besides the main frame in the pages of SpecWalk
MaxFrames == 3

----------------------------------------------------------------------------
(* Strings *)

\* Python's None, as a string no program string equals
NoneVal == <<"<None>">>

\* Python truthiness of an optional string
Falsy(x) == x = NoneVal \/ x = <<>>

\* Python's `sub in s` on strings
Contains(sub, s) ==
    \E i \in 0..(Len(s) - Len(sub)) : SubSeq(s, i + 1, i + Len(sub)) = sub

\* str(i) for the small indices of the inner-frame loop
Digits == <<"1", "2", "3", "4", "5", "6">>

\* [x for x in s if Test(x)]
RECURSIVE SelectSeqIdx(_, _, _)
SelectSeqIdx(s, keep, i) ==
    IF i > Len(s) THEN <<>>
    ELSE (IF i \in keep THEN <<s[i]>> ELSE <<>>) \o SelectSeqIdx(s, keep, i + 1)

Filter(s, keep) == SelectSeqIdx(s, keep, 1)

----------------------------------------------------------------------------
(* The target table *)

TargetOrder ==
    <<"instance-data", "localhost:443", "localhost:80", "gcp-token",
      "file-root", "file-var-www">>

targets_of_interest ==
    [name \in {TargetOrder[i] : i \in 1..Len(TargetOrder)} |->
        CASE name = "instance-data" -> <<"http://instance-data/latest/meta-data/">>
          [] name = "localhost:443" -> <<"http://127.0.0.1:443/">>
          [] name = "localhost:80"  -> <<"http://127.0.0.1:80/">>
          [] name = "gcp-token"     ->
                <<"http://metadata.google.internal/computeMetadata/v1beta1/instance/service-accounts/default/token">>
          [] name = "file-root"     -> <<"file://", "/">>
          [] name = "file-var-www"  -> <<"file://", "/", "var/www/html/">>]

\* `"file://" in url_substring`
IsFileTarget(url_substring) == Contains(<<"file://">>, url_substring)

----------------------------------------------------------------------------
(* What the driver can deliver *)

EventKinds == {"dialog", "console", "request", "requestfailed", "response"}

\* URLs of network events: one under the instance-data target, one that
\* carries the localhost:80 target in its query
Urls ==
    { <<"http://instance-data/latest/meta-data/", "iam/">>,
      <<"http://redirect/?u=", "http://127.0.0.1:80/">> }

PageUrl == <<"file://", "/", "work/render_mixed_test_iframe.html">>

Statuses == {200, 404}

\* request.failure as the driver supplies it
Failures == {NoneVal, <<>>, <<"net::ERR_CONNECTION_REFUSED">>}

DialogMessages == {<<"xss">>}

ConsoleTypes == {"log", "error"}

ConsoleTexts ==
    { <<"hello">>,
      <<"Not allowed to load local resource: ", "file://", "/">> }

ConsoleLocations == { <<"file://", "/">> }

\* the console messages of the page: a log line, a log line whose text
\* names file:///, and an error raised at file:/// whose text does not
ConsoleEvents ==
    {c \in [type : ConsoleTypes, text : ConsoleTexts, location : ConsoleLocations] :
        c.type = "error" => c.text = <<"hello">>}

MainDoc == <<"<html>", "main", "</html>">>

\* str(e) of the exception content() raises
ContentUnavailable == <<"ContentUnavailable">>

\* the document of each frame of the page, by attach order: the document
\* of frame 2, whose src is a file URL, shows the text "Could not access
\* content"
FrameDoc(f) ==
    IF f = 2 THEN <<"<html>", "Could not access content", "</html>">>
    ELSE <<"<html>", "ok", "</html>">>

\* src of the frames of the page, by attach order
FrameSrc(f) ==
    CASE f = 1 -> <<"about:srcdoc">>
      [] f = 2 -> <<"file://", "/">>
      [] f = 3 -> <<"http://instance-data/latest/meta-data/">>
      [] OTHER -> <<"file://", "/", "var/www/html/">>

----------------------------------------------------------------------------
VARIABLES
    pc,                     \* position of main()
    listeners,              \* event kinds with a registered handler
    alerts,                 \* list of dialog lines
    console_messages,       \* list of console dicts
    network_requests_raw,   \* list of network dicts
    delivered,              \* history: the callbacks delivered, in arrival order
    parent,                 \* live frame tree: parent of each frame 1..N (0 = main)
    retrievable,            \* per frame: what content() yields, or "fail"
    main_html_content,
    outer_iframe_html,
    inner_iframes_html_list,
    walk,                   \* the frames of outer_iframe.child_frames still to visit
    visited,                \* history: frames whose content() was awaited, with outcome
    files,                  \* the four output files, or unwritten
    stdout,                 \* summary lines printed
    failure,                \* the exception that ended main(), if any
    navOutcome,             \* history: how page.goto ended
    at_walk_start,          \* history: lengths of the lists when line 48 ran
    accepts,                \* per dialog: the dialog.accept() task and how it ended
    detached,               \* frames that left the page after it loaded
    no_reason               \* history, per requestfailed entry: request.failure was None or ""

vars ==
    <<pc, listeners, alerts, console_messages, network_requests_raw, delivered,
      parent, retrievable, main_html_content, outer_iframe_html,
      inner_iframes_html_list, walk, visited, files, stdout, failure,
      navOutcome, at_walk_start, accepts, detached, no_reason>>

logVars == <<alerts, console_messages, network_requests_raw, delivered>>
pageVars == <<parent, retrievable>>
walkVars == <<main_html_content, outer_iframe_html, inner_iframes_html_list, walk, visited>>
outVars == <<files, stdout>>
auxVars == <<at_walk_start, accepts, detached, no_reason>>

\* the output files before line 74 runs
Unwritten == [written |-> FALSE, alerts |-> <<>>, console |-> <<>>, dom |-> <<>>, network |-> <<>>]

Init ==
    /\ pc = "Idle"
    /\ listeners = {}
    /\ alerts = <<>>
    /\ console_messages = <<>>
    /\ network_requests_raw = <<>>
    /\ delivered = <<>>
    /\ parent = <<>>
    /\ retrievable = <<>>
    /\ main_html_content = NoneVal
    /\ outer_iframe_html = NoneVal
    /\ inner_iframes_html_list = <<>>
    /\ walk = <<>>
    /\ visited = <<>>
    /\ files = Unwritten
    /\ stdout = <<>>
    /\ failure = "none"
    /\ navOutcome = "none"
    /\ at_walk_start = [console |-> 0, network |-> 0]
    /\ accepts = <<>>
    /\ detached = {}
    /\ no_reason = <<>>

----------------------------------------------------------------------------
(* The event handlers, lines 15-39.  A callback runs only while main() is  *)
(* suspended at an await and only once its handler is registered.          *)

\* AwaitPcs of a main() that is also suspended while it writes the files
\* and prints the summary
AwaitPcsThroughSummary ==
    {"Navigating", "MainContent", "OuterContent", "InnerContent", "Closing",
     "Writing", "Summary"}

\* the awaits of main(): lines 44, 46, 54, 62 and 71
AwaitPcs == {"Navigating", "MainContent", "OuterContent", "InnerContent", "Closing"}

CanDeliver(kind) ==
    /\ pc \in AwaitPcs
    /\ kind \in listeners
    /\ Len(delivered) < MaxEvents

\* the history entry of one delivered callback: the entry its handler
\* built and the position the entry got in its list; seq is 0 when the
\* handler raised before appending
Arrived(kind, entry, seq) == Append(delivered, [kind |-> kind, entry |-> entry, seq |-> seq])

\* line 15: the line is appended and asyncio.ensure_future schedules the
\* task dialog.accept(), which nothing awaits.  The task sends the accept
\* when the loop next runs, before main() resumes; the browser answers it
\* (accepted) unless browser.close() was already called, and then either
\* answer can come.
OnDialog(message, accepted) ==
    /\ CanDeliver("dialog")
    /\ pc # "Closing" => accepted
    /\ LET line == <<"Dialog: ">> \o message \o <<" (URL: ">> \o PageUrl \o <<")">>
       IN /\ alerts' = Append(alerts, line)
          /\ delivered' = Arrived("dialog", line, Len(alerts) + 1)
    /\ accepts' = Append(accepts, [action |-> "accept", accepted |-> accepted])
    /\ UNCHANGED <<pc, listeners, console_messages, network_requests_raw,
                   pageVars, walkVars, outVars, failure, navOutcome,
                   at_walk_start, detached, no_reason>>

\* line 16; location is the dict's "url" entry
OnConsole(type, text, location) ==
    /\ CanDeliver("console")
    /\ LET msg == [source |-> "main_page_or_outer_iframe", type |-> type, text |-> text,
                   location |-> [url |-> location]]
       IN /\ console_messages' = Append(console_messages, msg)
          /\ delivered' = Arrived("console", msg, Len(console_messages) + 1)
    /\ UNCHANGED <<pc, listeners, alerts, network_requests_raw,
                   pageVars, walkVars, outVars, failure, navOutcome, auxVars>>

\* NetworkAppend with the entry put at the head of the list
NetworkAppendAtHead(kind, entry, frameOk) ==
    /\ CanDeliver(kind)
    /\ IF frameOk
       THEN /\ network_requests_raw' = <<entry>> \o network_requests_raw
            /\ delivered' = Arrived(kind, entry, Len(network_requests_raw) + 1)
       ELSE /\ network_requests_raw' = network_requests_raw
            /\ delivered' = Arrived(kind, NoneVal, 0)
    /\ UNCHANGED <<pc, listeners, alerts, console_messages,
                   pageVars, walkVars, outVars, failure, navOutcome,
                   at_walk_start, accepts, detached>>

\* a network handler: request.frame / response.frame raises when the frame
\* is not available, and then nothing is appended
NetworkAppend(kind, entry, frameOk) ==
    /\ CanDeliver(kind)
    /\ IF frameOk
       THEN /\ network_requests_raw' = Append(network_requests_raw, entry)
            /\ delivered' = Arrived(kind, entry, Len(network_requests_raw) + 1)
       ELSE /\ network_requests_raw' = network_requests_raw
            /\ delivered' = Arrived(kind, NoneVal, 0)
    /\ UNCHANGED <<pc, listeners, alerts, console_messages,
                   pageVars, walkVars, outVars, failure, navOutcome,
                   at_walk_start, accepts, detached>>

\* lines 18-22
handle_request(url, frameOk) ==
    /\ NetworkAppend("request",
        [event_type |-> "request", url |-> url, method |-> "GET",
         headers |-> "headers", frame_url |-> PageUrl], frameOk)
    /\ UNCHANGED no_reason

\* handle_request_failed replacing only None, not the empty string
handle_request_failed_none_only(url, failure_text_val, frameOk) ==
    /\ NetworkAppend("requestfailed",
        [event_type |-> "requestfailed", url |-> url, method |-> "GET",
         failure_text |-> IF failure_text_val = NoneVal THEN <<"N/A">> ELSE failure_text_val,
         frame_url |-> PageUrl], frameOk)
    /\ no_reason' = IF frameOk THEN Append(no_reason, Falsy(failure_text_val)) ELSE no_reason

\* lines 25-31
handle_request_failed(url, failure_text_val, frameOk) ==
    /\ NetworkAppend("requestfailed",
        [event_type |-> "requestfailed", url |-> url, method |-> "GET",
         failure_text |-> IF Falsy(failure_text_val) THEN <<"N/A">> ELSE failure_text_val,
         frame_url |-> PageUrl], frameOk)
    /\ no_reason' = IF frameOk THEN Append(no_reason, Falsy(failure_text_val)) ELSE no_reason

\* lines 34-38
handle_response(url, status, frameOk) ==
    /\ NetworkAppend("response",
        [event_type |-> "response", url |-> url, status |-> status,
         headers |-> "headers", frame_url |-> PageUrl], frameOk)
    /\ UNCHANGED no_reason

Deliver ==
    \/ \E m \in DialogMessages, a \in BOOLEAN : OnDialog(m, a)
    \/ \E c \in ConsoleEvents : OnConsole(c.type, c.text, c.location)
    \/ \E u \in Urls, ok \in BOOLEAN : handle_request(u, ok)
    \/ \E u \in Urls, f \in Failures, ok \in BOOLEAN : handle_request_failed(u, f, ok)
    \/ \E u \in Urls, s \in Statuses, ok \in BOOLEAN : handle_response(u, s, ok)

----------------------------------------------------------------------------
(* main(), lines 6-145 *)

\* an exception no try block catches leaves main(): nothing after runs
Raise(reason) ==
    /\ pc' = "Crashed"
    /\ failure' = reason

\* the frame trees of a page with n frames besides the main frame; a frame
\* attaches after its parent, and frame 1 is a child of the main frame
Trees(n) == {p \in [1..n -> 0..n] : \A f \in 1..n : p[f] < f}

\* the pages with at most n frames besides the main frame: the frame tree
\* and, per frame, whether content() returns
Pages(n) ==
    UNION {{[parent |-> p, retrievable |-> r] : p \in Trees(k), r \in [1..k -> BOOLEAN]}
              : k \in 0..n}

\* the pages of Spec: a page without frames, and the outer iframe with two
\* inner frames, at most one of the three not retrievable
FixtureTree == <<0, 1, 1>>

FixturePages ==
    {[parent |-> <<>>, retrievable |-> <<>>]}
    \cup {[parent |-> FixtureTree, retrievable |-> r] :
             r \in {q \in [DOMAIN FixtureTree -> BOOLEAN] :
                       Cardinality({f \in DOMAIN FixtureTree : ~q[f]}) <= 1}}

\* frame.child_frames, in attach order
ChildFrames(p, f) == Filter([g \in 1..Len(p) |-> g], {g \in 1..Len(p) : p[g] = f})

\* frame.child_frames of the loaded page when line 59 reads it: a frame
\* that detached is no longer in the list of its parent
AttachedChildFrames(f) ==
    LET all == ChildFrames(parent, f)
    IN Filter(all, {k \in 1..Len(all) : all[k] \notin detached})

\* frame.content() returns, rather than raises, for an attached frame whose
\* document can be read
ContentReturns(f) == retrievable[f] /\ f \notin detached

\* g is f or a frame below f in the tree p
RECURSIVE IsUnder(_, _, _)
IsUnder(p, g, f) ==
    IF g = f THEN TRUE
    ELSE IF g = 0 THEN FALSE
    ELSE IsUnder(p, p[g], f)

\* the page removes frame f, and with it the frames below f, while main()
\* waits for a content() call of the walk
Detach(f) ==
    /\ pc \in {"OuterContent", "InnerContent"}
    /\ f \in 1..Len(parent)
    /\ f \notin detached
    /\ detached' = detached \cup {g \in 1..Len(parent) : IsUnder(parent, g, f)}
    /\ UNCHANGED <<pc, listeners, logVars, pageVars, walkVars, outVars, failure,
                   navOutcome, at_walk_start, accepts, no_reason>>

\* lines 7-13
Launch ==
    /\ pc = "Idle"
    /\ pc' = "Launched"
    /\ alerts' = <<>>
    /\ console_messages' = <<>>
    /\ network_requests_raw' = <<>>
    /\ UNCHANGED <<listeners, delivered, pageVars, walkVars, outVars, failure, navOutcome, auxVars>>

\* lines 8-9: launch() or new_page() raises
LaunchFail ==
    /\ pc = "Idle"
    /\ Raise("LaunchError")
    /\ UNCHANGED <<listeners, logVars, pageVars, walkVars, outVars, navOutcome, auxVars>>

\* lines 15-39: the five page.on calls
RegisterListeners ==
    /\ pc = "Launched"
    /\ pc' = "Registered"
    /\ listeners' = EventKinds
    /\ UNCHANGED <<logVars, pageVars, walkVars, outVars, failure, navOutcome, auxVars>>

\* GotoStart without waiting for the page.on calls
GotoStartUnregistered ==
    /\ pc \in {"Launched", "Registered"}
    /\ pc' = "Navigating"
    /\ UNCHANGED <<listeners, logVars, pageVars, walkVars, outVars, failure, navOutcome, auxVars>>

\* lines 42-44: page.goto is called and main() is suspended
GotoStart ==
    /\ pc = "Registered"
    /\ pc' = "Navigating"
    /\ UNCHANGED <<listeners, logVars, pageVars, walkVars, outVars, failure, navOutcome, auxVars>>

\* line 44: the page reached network-idle; its frame tree is loaded.
\* line 46: page.content() is called
GotoDone(pages) ==
    /\ pc = "Navigating"
    /\ \E page \in pages :
         /\ parent' = page.parent
         /\ retrievable' = page.retrievable
    /\ navOutcome' = "networkidle"
    /\ pc' = "MainContent"
    /\ UNCHANGED <<listeners, logVars, walkVars, outVars, failure, auxVars>>

\* line 44: page.goto raises (the page cannot load, or network-idle is not
\* reached within the driver's timeout); no try block is around it
GotoFail(reason) ==
    /\ pc = "Navigating"
    /\ navOutcome' = reason
    /\ Raise(reason)
    /\ UNCHANGED <<listeners, logVars, pageVars, walkVars, outVars, auxVars>>

\* line 46 returns
MainContentDone ==
    /\ pc = "MainContent"
    /\ main_html_content' = MainDoc
    /\ pc' = "WalkStart"
    /\ UNCHANGED <<listeners, logVars, pageVars, outer_iframe_html,
                   inner_iframes_html_list, walk, visited, outVars, failure, navOutcome, auxVars>>

\* line 46 raises; no try block is around it
MainContentFail ==
    /\ pc = "MainContent"
    /\ Raise("ContentError")
    /\ UNCHANGED <<listeners, logVars, pageVars, walkVars, outVars, navOutcome, auxVars>>

\* lines 48-54 and 68-69: page.frames[1] is the outer iframe
StartWalk ==
    /\ pc = "WalkStart"
    /\ inner_iframes_html_list' = <<>>
    /\ IF Len(parent) + 1 > 1
       THEN /\ outer_iframe_html' = <<"Outer iframe not found or content not accessible.">>
            /\ pc' = "OuterContent"
       ELSE /\ outer_iframe_html' = <<"Outer iframe not found.">>
            /\ pc' = "Closing"
    /\ at_walk_start' = [console |-> Len(console_messages),
                         network |-> Len(network_requests_raw)]
    /\ UNCHANGED <<listeners, logVars, pageVars, main_html_content, walk, visited,
                   outVars, failure, navOutcome, accepts, detached, no_reason>>

\* line 59: the loop over outer_iframe.child_frames starts (or is empty);
\* line 71: browser.close() is called after the loop
EnterLoop(frames) ==
    /\ walk' = frames
    /\ pc' = IF frames = <<>> THEN "Closing" ELSE "InnerContent"

\* line 54 returns, then line 59
OuterContentDone ==
    /\ pc = "OuterContent"
    /\ ContentReturns(1)
    /\ outer_iframe_html' = FrameDoc(1)
    /\ visited' = Append(visited, [frame |-> 1, ok |-> TRUE])
    /\ EnterLoop(AttachedChildFrames(1))
    /\ UNCHANGED <<listeners, logVars, pageVars, main_html_content,
                   inner_iframes_html_list, outVars, failure, navOutcome, auxVars>>

\* lines 55-57, then line 59
OuterContentFail ==
    /\ pc = "OuterContent"
    /\ ~ContentReturns(1)
    /\ outer_iframe_html' = <<"Could not access outer iframe content: ">> \o ContentUnavailable
    /\ console_messages' = Append(console_messages,
            [source |-> "script_info", type |-> "error",
             text |-> <<"Failed to get outer_iframe content: ">> \o ContentUnavailable,
             location |-> [url |-> NoneVal]])
    /\ visited' = Append(visited, [frame |-> 1, ok |-> FALSE])
    /\ EnterLoop(AttachedChildFrames(1))
    /\ UNCHANGED <<listeners, alerts, network_requests_raw, delivered, pageVars,
                   main_html_content, inner_iframes_html_list, outVars, failure, navOutcome, auxVars>>

\* line 60
IframeName(i, f) == <<"Inner iframe ", Digits[i], " (src: ">> \o FrameSrc(f) \o <<")">>

\* InnerContentDone also reporting the success in console_messages
InnerContentDoneLogsInfo ==
    /\ pc = "InnerContent"
    /\ LET f == Head(walk)
           i == Len(inner_iframes_html_list) + 1
       IN /\ ContentReturns(f)
          /\ inner_iframes_html_list' = Append(inner_iframes_html_list,
                 [name |-> IframeName(i, f), content |-> FrameDoc(f)])
          /\ console_messages' = Append(console_messages,
                 [source |-> "script_info", type |-> "log",
                  text |-> <<"Got content for ">> \o IframeName(i, f),
                  location |-> [url |-> NoneVal]])
          /\ visited' = Append(visited, [frame |-> f, ok |-> TRUE])
    /\ EnterLoop(Tail(walk))
    /\ UNCHANGED <<listeners, alerts, network_requests_raw, delivered, pageVars,
                   main_html_content, outer_iframe_html, outVars, failure, navOutcome, auxVars>>

\* lines 61-63: one iteration of the loop, content() returns
InnerContentDone ==
    /\ pc = "InnerContent"
    /\ LET f == Head(walk)
           i == Len(inner_iframes_html_list) + 1
       IN /\ ContentReturns(f)
          /\ inner_iframes_html_list' = Append(inner_iframes_html_list,
                 [name |-> IframeName(i, f), content |-> FrameDoc(f)])
          /\ visited' = Append(visited, [frame |-> f, ok |-> TRUE])
    /\ EnterLoop(Tail(walk))
    /\ UNCHANGED <<listeners, logVars, pageVars, main_html_content, outer_iframe_html,
                   outVars, failure, navOutcome, auxVars>>

\* InnerContentFail storing str(e) alone as the content
InnerContentFailBareReason ==
    /\ pc = "InnerContent"
    /\ LET f == Head(walk)
           i == Len(inner_iframes_html_list) + 1
       IN /\ ~ContentReturns(f)
          /\ inner_iframes_html_list' = Append(inner_iframes_html_list,
                 [name |-> IframeName(i, f), content |-> ContentUnavailable])
          /\ console_messages' = Append(console_messages,
                 [source |-> "script_info", type |-> "error",
                  text |-> <<"Failed to get content for ">> \o IframeName(i, f)
                           \o <<": ">> \o ContentUnavailable,
                  location |-> [url |-> NoneVal]])
          /\ visited' = Append(visited, [frame |-> f, ok |-> FALSE])
    /\ EnterLoop(Tail(walk))
    /\ UNCHANGED <<listeners, alerts, network_requests_raw, delivered, pageVars,
                   main_html_content, outer_iframe_html, outVars, failure, navOutcome, auxVars>>

\* InnerContentFail without the try block of lines 61-67
InnerContentFailUncaught ==
    /\ pc = "InnerContent"
    /\ ~ContentReturns(Head(walk))
    /\ Raise("ContentError")
    /\ UNCHANGED <<listeners, logVars, pageVars, walkVars, outVars, navOutcome, auxVars>>

\* lines 64-67: one iteration of the loop, content() raises
InnerContentFail ==
    /\ pc = "InnerContent"
    /\ LET f == Head(walk)
           i == Len(inner_iframes_html_list) + 1
       IN /\ ~ContentReturns(f)
          /\ inner_iframes_html_list' = Append(inner_iframes_html_list,
                 [name |-> IframeName(i, f),
                  content |-> <<"Could not access content", ": ">> \o ContentUnavailable])
          /\ console_messages' = Append(console_messages,
                 [source |-> "script_info", type |-> "error",
                  text |-> <<"Failed to get content for ">> \o IframeName(i, f)
                           \o <<": ">> \o ContentUnavailable,
                  location |-> [url |-> NoneVal]])
          /\ visited' = Append(visited, [frame |-> f, ok |-> FALSE])
    /\ EnterLoop(Tail(walk))
    /\ UNCHANGED <<listeners, alerts, network_requests_raw, delivered, pageVars,
                   main_html_content, outer_iframe_html, outVars, failure, navOutcome, auxVars>>

\* line 71 returns
CloseDone ==
    /\ pc = "Closing"
    /\ pc' = "Writing"
    /\ UNCHANGED <<listeners, logVars, pageVars, walkVars, outVars, failure, navOutcome, auxVars>>

\* line 71 raises
CloseFail ==
    /\ pc = "Closing"
    /\ Raise("CloseError")
    /\ UNCHANGED <<listeners, logVars, pageVars, walkVars, outVars, navOutcome, auxVars>>

\* lines 81-88: the sections of mixed_test_dom.html
DomSections ==
    <<[header |-> <<"--- MAIN PAGE HTML ---">>, body |-> main_html_content],
      [header |-> <<"--- OUTER IFRAME (SRCDOC) DOCUMENT HTML ---">>, body |-> outer_iframe_html]>>
    \o [i \in 1..Len(inner_iframes_html_list) |->
          [header |-> <<"--- ">> \o inner_iframes_html_list[i].name \o <<" DOCUMENT HTML ---">>,
           body |-> inner_iframes_html_list[i].content]]

\* lines 74-91: the four files; json.dump keeps the list and its dicts
WriteArtifacts ==
    /\ pc = "Writing"
    /\ files' = [written |-> TRUE,
                 alerts  |-> IF alerts # <<>> THEN alerts ELSE << <<"No alerts captured.">> >>,
                 console |-> console_messages,
                 dom     |-> DomSections,
                 network |-> network_requests_raw]
    /\ pc' = "Summary"
    /\ UNCHANGED <<listeners, logVars, pageVars, walkVars, stdout, failure, navOutcome, auxVars>>

----------------------------------------------------------------------------
(* The summary, lines 94-145 *)

\* one print of the summary: the target it is about ("" for none), what it
\* says, the count it shows and the entries it lists
Line(target, tag, n, items) == [target |-> target, tag |-> tag, n |-> n, items |-> items]

\* line 130
HttpRequests(log, url_substring) ==
    Filter(log, {i \in 1..Len(log) : Contains(url_substring, log[i].url)})

\* line 131
SuccessfulResponses(http_requests) ==
    Filter(http_requests, {i \in 1..Len(http_requests) :
        /\ http_requests[i].event_type = "response"
        /\ http_requests[i].status = 200})

\* FailedRequests keeping only the first failure
FailedRequestsFirstOnly(http_requests) ==
    LET all == Filter(http_requests, {i \in 1..Len(http_requests) :
                   http_requests[i].event_type = "requestfailed"})
    IN IF all = <<>> THEN <<>> ELSE <<Head(all)>>

\* line 132
FailedRequests(http_requests) ==
    Filter(http_requests, {i \in 1..Len(http_requests) :
        http_requests[i].event_type = "requestfailed"})

\* OtherRelatedEvents counting only the requests
OtherRelatedRequestsOnly(http_requests) ==
    Filter(http_requests, {i \in 1..Len(http_requests) :
        http_requests[i].event_type = "request"})

\* `r in list`
InList(r, list) == \E j \in 1..Len(list) : list[j] = r

\* line 143
OtherRelatedEvents(http_requests) ==
    Filter(http_requests, {i \in 1..Len(http_requests) :
        /\ ~InList(http_requests[i], SuccessfulResponses(http_requests))
        /\ ~InList(http_requests[i], FailedRequests(http_requests))})

\* HttpOutcome with the two tests in the other order
HttpOutcomeFailedFirst(name, successful_responses, failed_requests, other_related_events) ==
    IF failed_requests # <<>>
    THEN <<Line(name, "Failed requests", Len(failed_requests),
                [i \in 1..Len(failed_requests) |->
                    [url |-> failed_requests[i].url,
                     failure_text |-> failed_requests[i].failure_text]])>>
    ELSE IF successful_responses # <<>>
    THEN <<Line(name, "Successful responses", Len(successful_responses),
                [i \in 1..Len(successful_responses) |->
                    [url |-> successful_responses[i].url,
                     status |-> successful_responses[i].status]])>>
    ELSE <<Line(name, "No conclusive", 0, <<>>)>>
         \o (IF other_related_events # <<>>
             THEN <<Line(name, "Other related network events",
                         Len(other_related_events), <<>>)>>
             ELSE <<>>)

\* lines 135-145: the if / elif / else on the two lists
HttpOutcome(name, successful_responses, failed_requests, other_related_events) ==
    IF successful_responses # <<>>
    THEN <<Line(name, "Successful responses", Len(successful_responses),
                [i \in 1..Len(successful_responses) |->
                    [url |-> successful_responses[i].url,
                     status |-> successful_responses[i].status]])>>
    ELSE IF failed_requests # <<>>
    THEN <<Line(name, "Failed requests", Len(failed_requests),
                [i \in 1..Len(failed_requests) |->
                    [url |-> failed_requests[i].url,
                     failure_text |-> failed_requests[i].failure_text]])>>
    ELSE <<Line(name, "No conclusive", 0, <<>>)>>
         \o (IF other_related_events # <<>>
             THEN <<Line(name, "Other related network events",
                         Len(other_related_events), <<>>)>>
             ELSE <<>>)

\* lines 129-145: an HTTP target
ClassifyHttp(name, url_substring, log) ==
    LET http_requests == HttpRequests(log, url_substring)
    IN <<Line(name, "Target", 0, <<>>)>>
       \o HttpOutcome(name, SuccessfulResponses(http_requests),
                      FailedRequests(http_requests), OtherRelatedEvents(http_requests))

\* line 119
ConsoleErrorsForFile(console, url_substring) ==
    Filter(console, {i \in 1..Len(console) :
        \/ Contains(url_substring, console[i].text)
        \/ (console[i].location.url = url_substring /\ console[i].type = "error")})

\* line 122
LikelyBlocked(inner, url_substring) ==
    \E i \in 1..Len(inner) :
        /\ Contains(url_substring, inner[i].name)
        /\ Contains(<<"Could not access content">>, inner[i].content)

\* ClassifyFile with `if` in place of `elif`
ClassifyFileNoElif(name, url_substring, console, inner) ==
    (IF LikelyBlocked(inner, url_substring)
     THEN <<Line(name, "Likely blocked", 0, <<>>)>> ELSE <<>>)
    \o (IF ConsoleErrorsForFile(console, url_substring) # <<>>
        THEN <<Line(name, "Found related console errors", 0, <<>>)>>
        ELSE <<Line(name, "No specific failed network request", 0, <<>>)>>)

\* lines 117-127: a file target
ClassifyFile(name, url_substring, console, inner) ==
    IF LikelyBlocked(inner, url_substring)
    THEN <<Line(name, "Likely blocked", 0, <<>>)>>
    ELSE IF ConsoleErrorsForFile(console, url_substring) # <<>>
    THEN <<Line(name, "Found related console errors", 0, <<>>)>>
    ELSE <<Line(name, "No specific failed network request", 0, <<>>)>>

\* lines 116-145: one iteration of the loop over targets_of_interest
ClassifyTarget(name, log, console, inner) ==
    LET url_substring == targets_of_interest[name]
    IN IF IsFileTarget(url_substring)
       THEN ClassifyFile(name, url_substring, console, inner)
       ELSE ClassifyHttp(name, url_substring, log)

\* line 116: the loop, in the order of the dict
RECURSIVE TargetLoop(_, _, _, _)
TargetLoop(i, log, console, inner) ==
    IF i > Len(TargetOrder) THEN <<>>
    ELSE ClassifyTarget(TargetOrder[i], log, console, inner)
         \o TargetLoop(i + 1, log, console, inner)

\* PrintSummary classifying the lists as they stood when the walk began
PrintSummaryFromSnapshot ==
    /\ pc = "Summary"
    /\ stdout' =
         <<Line("", "ALERTS", Len(alerts),
                IF alerts = <<>> THEN << <<"No alerts captured.">> >> ELSE alerts),
           Line("", "CONSOLE MESSAGES", Len(console_messages), <<>>),
           Line("", "HTML CONTENT", Len(inner_iframes_html_list), <<>>),
           Line("", "NETWORK ACTIVITY SUMMARY", 0, <<>>)>>
         \o TargetLoop(1, SubSeq(network_requests_raw, 1, at_walk_start.network),
                       SubSeq(console_messages, 1, at_walk_start.console),
                       inner_iframes_html_list)
    /\ pc' = "Complete"
    /\ UNCHANGED <<listeners, logVars, pageVars, walkVars, files, failure, navOutcome, auxVars>>

\* lines 94-145: the summary printouts and the classification of every target
PrintSummary ==
    /\ pc = "Summary"
    /\ stdout' =
         <<Line("", "ALERTS", Len(alerts),
                IF alerts = <<>> THEN << <<"No alerts captured.">> >> ELSE alerts),
           Line("", "CONSOLE MESSAGES", Len(console_messages), <<>>),
           Line("", "HTML CONTENT", Len(inner_iframes_html_list), <<>>),
           Line("", "NETWORK ACTIVITY SUMMARY", 0, <<>>)>>
         \o TargetLoop(1, network_requests_raw, console_messages, inner_iframes_html_list)
    /\ pc' = "Complete"
    /\ UNCHANGED <<listeners, logVars, pageVars, walkVars, files, failure, navOutcome, auxVars>>

----------------------------------------------------------------------------
NavigationFailures == {"NavigationError", "TimeoutError"}

\* a run on one of the fixture pages, with the driver's callbacks
Next ==
    \/ Launch
    \/ LaunchFail
    \/ RegisterListeners
    \/ GotoStart
    \/ Deliver
    \/ GotoDone(FixturePages)
    \/ \E reason \in NavigationFailures : GotoFail(reason)
    \/ MainContentDone
    \/ MainContentFail
    \/ StartWalk
    \/ OuterContentDone
    \/ OuterContentFail
    \/ InnerContentDone
    \/ InnerContentFail
    \/ CloseDone
    \/ CloseFail
    \/ WriteArtifacts
    \/ PrintSummary

Spec == Init /\ [][Next]_vars

\* a run on any page of at most MaxFrames frames, the page firing no event
\* and removing frames during the walk
NextWalk ==
    \/ Launch
    \/ \E f \in 1..MaxFrames : Detach(f)
    \/ LaunchFail
    \/ RegisterListeners
    \/ GotoStart
    \/ GotoDone(Pages(MaxFrames))
    \/ \E reason \in NavigationFailures : GotoFail(reason)
    \/ MainContentDone
    \/ MainContentFail
    \/ StartWalk
    \/ OuterContentDone
    \/ OuterContentFail
    \/ InnerContentDone
    \/ InnerContentFail
    \/ CloseDone
    \/ CloseFail
    \/ WriteArtifacts
    \/ PrintSummary

SpecWalk == Init /\ [][NextWalk]_vars

TypeOK ==
    /\ pc \in {"Idle", "Launched", "Registered", "Navigating", "MainContent",
               "WalkStart", "OuterContent", "InnerContent", "Closing", "Writing",
               "Summary", "Complete", "Crashed"}
    /\ listeners \subseteq EventKinds
    /\ Len(delivered) <= MaxEvents

----------------------------------------------------------------------------
(* Vocabulary of the properties *)

NetworkKinds == {"request", "requestfailed", "response"}

\* the list a callback of this kind appends to
LogOf(kind) ==
    CASE kind = "dialog" -> "alerts"
      [] kind = "console" -> "console_messages"
      [] OTHER -> "network_requests_raw"

LogValue(name) ==
    CASE name = "alerts" -> alerts
      [] name = "console_messages" -> console_messages
      [] OTHER -> network_requests_raw

HttpTargets == {n \in DOMAIN targets_of_interest : ~IsFileTarget(targets_of_interest[n])}
FileTargets == {n \in DOMAIN targets_of_interest : IsFileTarget(targets_of_interest[n])}

\* the events of the network log whose URL matches a target
Matching(name) ==
    {i \in 1..Len(network_requests_raw) :
        Contains(targets_of_interest[name], network_requests_raw[i].url)}

Matching200(name) ==
    {i \in Matching(name) :
        /\ network_requests_raw[i].event_type = "response"
        /\ network_requests_raw[i].status = 200}

MatchingFailed(name) ==
    {i \in Matching(name) : network_requests_raw[i].event_type = "requestfailed"}

OutcomeTags ==
    {"Successful responses", "Failed requests", "No conclusive",
     "Other related network events", "Likely blocked",
     "Found related console errors", "No specific failed network request"}

\* the outcome lines the summary printed for a target, in print order
OutcomeLines(name) ==
    Filter(stdout, {i \in 1..Len(stdout) :
        stdout[i].target = name /\ stdout[i].tag \in OutcomeTags})

TagsOf(lines) == [i \in 1..Len(lines) |-> lines[i].tag]

----------------------------------------------------------------------------
(* C1 *)

----------------------------------------------------------------------------
(* C2 - C5: the classification of the targets *)

\* C2: for a network target, if some response whose URL matches the target
\* has status 200, the summary reports Succeeded for it and nothing else,
\* however many matching request-failed events there are and wherever they
\* stand in the log.
C2_SuccessOutranksFailure ==
    pc = "Complete" =>
        \A name \in HttpTargets :
            Matching200(name) # {} =>
                TagsOf(OutcomeLines(name)) = <<"Successful responses">>

\* a request for a target URL failed and a later response for the same URL
\* had status 200
C2_Witness ==
    /\ pc = "Complete"
    /\ \E name \in HttpTargets : \E i \in MatchingFailed(name), j \in Matching200(name) :
          /\ i < j
          /\ network_requests_raw[i].url = network_requests_raw[j].url

\* the [url, failure_text] pairs of the matching request-failed events, in
\* log order
ExpectedFailures(name) ==
    LET failed == Filter(network_requests_raw, MatchingFailed(name))
    IN [i \in 1..Len(failed) |->
          [url |-> failed[i].url, failure_text |-> failed[i].failure_text]]

\* C3: for a network target with no matching status-200 response and at
\* least one matching request-failed event, the summary reports Failed and
\* lists every matching request-failed event with its failure reason, none
\* omitted and none of another URL.
C3_FailedListsEveryFailure ==
    pc = "Complete" =>
        \A name \in HttpTargets :
            (Matching200(name) = {} /\ MatchingFailed(name) # {}) =>
                LET lines == OutcomeLines(name)
                IN /\ TagsOf(lines) = <<"Failed requests">>
                   /\ lines[1].n = Cardinality(MatchingFailed(name))
                   /\ lines[1].items = ExpectedFailures(name)

\* two requests for URLs of one target failed, with different reasons
C3_Witness ==
    /\ pc = "Complete"
    /\ \E name \in HttpTargets :
          /\ Matching200(name) = {}
          /\ \E i, j \in MatchingFailed(name) :
                /\ i < j
                /\ network_requests_raw[i].failure_text # network_requests_raw[j].failure_text

\* C4: for a network target with no matching status-200 response and no
\* matching request-failed event, the summary reports Inconclusive (the
\* "no conclusive entries" line followed by the count of other related
\* events) exactly when some event of the log matches the target, and
\* NoActivity (the "no conclusive entries" line alone) exactly when none
\* does.
C4_InconclusiveIffMatched ==
    pc = "Complete" =>
        \A name \in HttpTargets :
            (Matching200(name) = {} /\ MatchingFailed(name) = {}) =>
                LET lines == OutcomeLines(name)
                IN IF Matching(name) # {}
                   THEN /\ TagsOf(lines) = <<"No conclusive", "Other related network events">>
                        /\ lines[2].n = Cardinality(Matching(name))
                   ELSE TagsOf(lines) = <<"No conclusive">>

\* one target has nothing but a response of another status, another target
\* has no event at all
C4_Witness ==
    /\ pc = "Complete"
    /\ \E name \in HttpTargets :
          /\ Matching(name) # {}
          /\ \A i \in Matching(name) :
                /\ network_requests_raw[i].event_type = "response"
                /\ network_requests_raw[i].status = 404
    /\ \E name \in HttpTargets : Matching(name) = {}

VariantTags ==
    {"Successful responses", "Failed requests", "No conclusive", "Likely blocked",
     "Found related console errors", "No specific failed network request"}

\* C5: the summary reports exactly one outcome variant for every target of
\* the table, a network variant for a network target and a file variant for
\* a file target, and the targets are reported in the order of the table.
C5_OneOutcomePerTarget ==
    pc = "Complete" =>
        /\ \A name \in DOMAIN targets_of_interest :
              LET variants == Filter(stdout, {i \in 1..Len(stdout) :
                                  stdout[i].target = name /\ stdout[i].tag \in VariantTags})
              IN /\ Len(variants) = 1
                 /\ variants[1].tag \in
                      (IF name \in FileTargets
                       THEN {"Likely blocked", "Found related console errors",
                             "No specific failed network request"}
                       ELSE {"Successful responses", "Failed requests", "No conclusive"})
        /\ LET variants == Filter(stdout, {i \in 1..Len(stdout) : stdout[i].tag \in VariantTags})
           IN [i \in 1..Len(variants) |-> variants[i].target] = TargetOrder

\* a run in which a file target has both a blocked inner frame and a console
\* message naming it, and a network target both a 200 response and a failure
C5_Witness ==
    /\ pc = "Complete"
    /\ \E name \in FileTargets :
          /\ LikelyBlocked(inner_iframes_html_list, targets_of_interest[name])
          /\ ConsoleErrorsForFile(console_messages, targets_of_interest[name]) # <<>>
    /\ \E name \in HttpTargets : Matching200(name) # {}

----------------------------------------------------------------------------
(* C6, C7: the frame walk *)

\* a content string that is a serialized document
HasDocument(content) == content # <<>> /\ Head(content) = "<html>"

\* a content string that is one of the error descriptors of lines 56 and 65
HasErrorDescriptor(content) ==
    /\ content # <<>>
    /\ Head(content) \in {"Could not access content", "Could not access outer iframe content: "}

\* the frame records the walk has captured so far, outer iframe first, with
\* the outcome of the content() call each one comes from
Captured ==
    [k \in 1..Len(visited) |->
        [frame |-> visited[k].frame,
         ok |-> visited[k].ok,
         content |-> IF k = 1 THEN outer_iframe_html
                     ELSE inner_iframes_html_list[k - 1].content]]

\* C6: every frame record the walk captured holds exactly one of a document
\* and an error descriptor: the record of a frame whose content() raised
\* holds the error descriptor and no document, the record of a frame whose
\* content() returned holds that document and no error descriptor, and the
\* start of the string tells which.
C6_ContentXorError ==
    /\ Len(visited) = (IF outer_iframe_html \in {NoneVal,
                              <<"Outer iframe not found or content not accessible.">>,
                              <<"Outer iframe not found.">>}
                       THEN 0 ELSE 1) + Len(inner_iframes_html_list)
    /\ \A k \in 1..Len(visited) :
          LET r == Captured[k]
          IN /\ HasDocument(r.content) # HasErrorDescriptor(r.content)
             /\ r.ok <=> HasDocument(r.content)
             /\ r.ok => r.content = FrameDoc(r.frame)

\* the walk captured an inner frame whose content() raised and an inner frame
\* whose document shows the text of the error descriptor
C6_Witness ==
    \E j, k \in 2..Len(visited) :
        /\ ~Captured[j].ok
        /\ Captured[k].ok
        /\ Contains(<<"Could not access content">>, Captured[k].content)

WalkOver == pc \in {"Closing", "Writing", "Summary", "Complete"}

\* C7: when the walk is over, every frame whose content() raised has its
\* error recorded and each of its child frames was visited, a retrievable
\* child holding its document.
C7_ChildrenOfFailedFrameVisited ==
    WalkOver =>
        \A k \in 1..Len(visited) :
            ~visited[k].ok =>
                /\ HasErrorDescriptor(Captured[k].content)
                /\ \A c \in 1..Len(parent) :
                      parent[c] = visited[k].frame =>
                          \E m \in 1..Len(visited) :
                              /\ visited[m].frame = c
                              /\ retrievable[c] => Captured[m].content = FrameDoc(c)

----------------------------------------------------------------------------
(* C8 - C10: the phases of a run *)

\* the phase of the run main() is in: lines 6-43 Idle, line 44 Navigating,
\* line 46 Capturing, lines 48-71 Walking, lines 73-145 Classifying
Phase ==
    CASE pc \in {"Idle", "Launched", "Registered"} -> "Idle"
      [] pc = "Navigating" -> "Navigating"
      [] pc = "MainContent" -> "Capturing"
      [] pc \in {"WalkStart", "OuterContent", "InnerContent", "Closing"} -> "Walking"
      [] pc \in {"Writing", "Summary"} -> "Classifying"
      [] pc = "Complete" -> "Complete"
      [] OTHER -> "Failed"

PhaseOrder == <<"Idle", "Navigating", "Capturing", "Walking", "Classifying", "Complete">>

Rank(phase) ==
    IF phase = "Failed" THEN 0
    ELSE CHOOSE r \in 1..Len(PhaseOrder) : PhaseOrder[r] = phase

\* the walk has visited the outer iframe and every frame of its child_frames
WalkFinished ==
    /\ walk = <<>>
    /\ Len(parent) > 0 =>
          {visited[k].frame : k \in 1..Len(visited)}
            = {1} \cup {c \in 1..Len(parent) : parent[c] = 1}

\* C8: a run goes through the phases in the order Idle, Navigating,
\* Capturing, Walking, Classifying, Complete, one at a time and never back,
\* unless an exception ends it (Failed, from which nothing follows); the
\* five listeners are registered when navigation starts, the walk starts
\* only after page.goto returned at network-idle, and classification starts
\* only after the walk has finished.
C8_PhaseOrder ==
    /\ [](Phase \notin {"Idle", "Failed"} => listeners = EventKinds)
    /\ [](Phase \in {"Capturing", "Walking", "Classifying", "Complete"}
             => navOutcome = "networkidle")
    /\ [](Phase \in {"Classifying", "Complete"} => WalkFinished)
    /\ [][/\ Phase' # Phase =>
               \/ Phase' = "Failed"
               \/ Rank(Phase') = Rank(Phase) + 1
          /\ Phase \in {"Failed", "Complete"} => Phase' = Phase]_vars

\* a run reached Complete after callbacks arrived and inner frames were walked
C8_Witness ==
    /\ pc = "Complete"
    /\ Len(delivered) > 0
    /\ Len(inner_iframes_html_list) > 1

\* C9: when page.goto raises a NavigationError the run ends Failed and the
\* events captured before the failure are in the persisted result.
C9_NavigationFailureKeepsEvidence ==
    (pc = "Crashed" /\ navOutcome = "NavigationError") =>
        /\ files.console = console_messages
        /\ files.network = network_requests_raw
        /\ alerts # <<>> => files.alerts = alerts

\* C10: when page.goto does not reach network-idle within the timeout the
\* run does not abort: it goes on to the walk and the classification.
C10_TimeoutStillCompletes ==
    navOutcome = "TimeoutError" => pc # "Crashed"

----------------------------------------------------------------------------
(* C11: events that arrive after the walk began *)

\* the lists as they stood when the walk began (line 48)
NetworkAtWalkStart == SubSeq(network_requests_raw, 1, at_walk_start.network)
ConsoleAtWalkStart == SubSeq(console_messages, 1, at_walk_start.console)

\* everything the summary printed about one target
TargetLines(name) == Filter(stdout, {i \in 1..Len(stdout) : stdout[i].target = name})

\* C11 as stated: the outcome of every target is the classification of the
\* events appended before the walk began; what arrived later is in the log
\* but is not read.
C11_ClassifiesSnapshotAtWalkStart ==
    pc = "Complete" =>
        \A name \in DOMAIN targets_of_interest :
            TargetLines(name) =
                ClassifyTarget(name, NetworkAtWalkStart, ConsoleAtWalkStart,
                               inner_iframes_html_list)

\* C11 (amended): an event that arrives after the walk began, while main()
\* waits for a frame's content() or for browser.close(), is appended to its
\* list behind the events already there, and the classification reads it:
\* the outcome of every target is the classification of the whole lists as
\* they stand when the summary runs.
C11_ClassifiesWholeLog ==
    /\ pc \notin {"Idle", "Launched", "Registered", "Navigating", "MainContent", "WalkStart"} =>
          /\ at_walk_start.network <= Len(network_requests_raw)
          /\ at_walk_start.console <= Len(console_messages)
    /\ pc = "Complete" =>
          /\ files.network = network_requests_raw
          /\ \A name \in DOMAIN targets_of_interest :
                TargetLines(name) =
                    ClassifyTarget(name, network_requests_raw, console_messages,
                                   inner_iframes_html_list)

\* a run whose only status-200 response for a target arrived after the walk
\* began
C11_Witness ==
    /\ pc = "Complete"
    /\ \E name \in HttpTargets :
          /\ Matching200(name) # {}
          /\ \A i \in Matching200(name) : i > at_walk_start.network

----------------------------------------------------------------------------
(* C12: the frames the walk reaches *)

\* C12: when the walk is over, every frame of the page's live hierarchy,
\* whatever its parent and its depth, has a record in the captured
\* documents, holding its document or an error descriptor.
C12_EveryLiveFrameCaptured ==
    WalkOver =>
        \A f \in 1..Len(parent) :
            f \notin detached =>
                \E m \in 1..Len(visited) :
                    /\ visited[m].frame = f
                    /\ HasDocument(Captured[m].content) \/ HasErrorDescriptor(Captured[m].content)

----------------------------------------------------------------------------
(* C13: dialogs *)

\* the browser is closed or main() has ended
SessionEnded == pc \in {"Writing", "Summary", "Complete", "Crashed"}

\* C13: every dialog delivered is recorded in alerts and an accept, never a
\* dismiss, is issued for it, and when the session has ended every dialog
\* delivered has been accepted.
C13_EveryDialogAccepted ==
    /\ Len(alerts) = Cardinality({i \in DOMAIN delivered : delivered[i].kind = "dialog"})
    /\ Len(accepts) = Len(alerts)
    /\ \A k \in 1..Len(accepts) : accepts[k].action = "accept"
    /\ SessionEnded => \A k \in 1..Len(accepts) : accepts[k].accepted

----------------------------------------------------------------------------
(* C14: the failure reason of a requestfailed entry *)

\* the requestfailed entries of the network log, in log order; no_reason[k]
\* tells whether the driver supplied no reason (None or "") for the k-th
FailedEntries ==
    Filter(network_requests_raw, {i \in 1..Len(network_requests_raw) :
        network_requests_raw[i].event_type = "requestfailed"})

----------------------------------------------------------------------------
(* C15: who appends to the lists *)

ScriptInfo == {k \in 1..Len(console_messages) : console_messages[k].source = "script_info"}

\* C15 as stated: only the handlers append, so every entry of the three
\* lists is the entry of a delivered callback.
C15_OnlyHandlersAppend ==
    /\ Len(alerts) = Cardinality({i \in DOMAIN delivered : delivered[i].kind = "dialog"})
    /\ Len(console_messages) =
          Cardinality({i \in DOMAIN delivered : delivered[i].kind = "console"})
    /\ Len(network_requests_raw) =
          Cardinality({i \in DOMAIN delivered :
                         delivered[i].kind \in NetworkKinds /\ delivered[i].seq > 0})

\* C15 (amended): the walk and the summary never change alerts or
\* network_requests_raw, and the only thing they do to console_messages is
\* that the walk appends one entry of source "script_info" for each frame
\* whose content() raised; every entry of alerts and network_requests_raw,
\* and every entry of console_messages of another source, is the entry of a
\* delivered callback.
C15_WalkAppendsOnlyScriptInfo ==
    /\ [](/\ Len(alerts) =
               Cardinality({i \in DOMAIN delivered : delivered[i].kind = "dialog"})
          /\ Len(network_requests_raw) =
               Cardinality({i \in DOMAIN delivered :
                              delivered[i].kind \in NetworkKinds /\ delivered[i].seq > 0})
          /\ Len(console_messages) - Cardinality(ScriptInfo) =
               Cardinality({i \in DOMAIN delivered : delivered[i].kind = "console"})
          /\ Cardinality(ScriptInfo) =
               Cardinality({k \in 1..Len(visited) : ~visited[k].ok}))
    /\ [][delivered' = delivered =>
            /\ alerts' = alerts
            /\ network_requests_raw' = network_requests_raw
            /\ \/ console_messages' = console_messages
               \/ /\ pc \in {"OuterContent", "InnerContent"}
                  /\ Len(console_messages') = Len(console_messages) + 1
                  /\ SubSeq(console_messages', 1, Len(console_messages)) = console_messages
                  /\ console_messages'[Len(console_messages')].source = "script_info"
                  /\ Len(visited') = Len(visited) + 1
                  /\ ~visited'[Len(visited')].ok]_vars

\* a run whose console_messages holds a message of the page and an entry
\* the walk appended
C15_Witness ==
    /\ pc = "Complete"
    /\ ScriptInfo # {}
    /\ \E i \in DOMAIN delivered : delivered[i].kind = "console"
    /\ \E k \in 1..Len(visited) : visited[k].ok

----------------------------------------------------------------------------
(* C17: the outcome of a file target *)

\* C17: the outcome of a file target is "likely blocked" when some captured
\* inner frame whose URL contains the pattern holds an error descriptor,
\* otherwise "related console errors" when the text of some console message
\* contains the pattern or the location URL of some error message equals
\* it, otherwise "nothing detected"; the network log plays no part.
C17_FilePrecedence ==
    pc = "Complete" =>
        \A name \in FileTargets :
            LET pattern == targets_of_interest[name]
                blocked ==
                    \E m \in 2..Len(visited) :
                        /\ Contains(pattern, FrameSrc(visited[m].frame))
                        /\ HasErrorDescriptor(Captured[m].content)
                related ==
                    \E k \in 1..Len(console_messages) :
                        \/ Contains(pattern, console_messages[k].text)
                        \/ /\ console_messages[k].type = "error"
                           /\ console_messages[k].location.url = pattern
            IN TagsOf(OutcomeLines(name)) =
                 << IF blocked THEN "Likely blocked"
                    ELSE IF related THEN "Found related console errors"
                    ELSE "No specific failed network request" >>

----------------------------------------------------------------------------
(* C18: a frame detaches during the walk *)

\* the content string of the record the walk appended last
LastCaptured(outer, inner) == IF inner = <<>> THEN outer ELSE inner[Len(inner)].content

\* C18 as stated: a frame that detached during the walk is absent from the
\* output and never an error node: no record of a detached frame whose
\* document could be read holds an error descriptor.
C18_DetachedFrameAbsent ==
    WalkOver =>
        \A m \in 2..Len(visited) :
            (visited[m].frame \in detached /\ retrievable[visited[m].frame])
                => ~HasErrorDescriptor(Captured[m].content)

\* C18 (amended): when a frame detaches during the walk the walk is not
\* aborted; the records already captured stay as they are; every child of
\* the outer iframe that is still attached when the walk is over has its
\* record; a frame that detached before line 59 read child_frames is absent
\* from the output, and a frame that detached after that and before its
\* content() returned is represented by an error record ("Could not access
\* content: ...", or "Could not access outer iframe content: ..." for the
\* outer iframe).
C18_DetachedFrameIsErrorRecord ==
    /\ [][(pc \in {"OuterContent", "InnerContent"}) =>
            /\ pc' \in {"OuterContent", "InnerContent", "Closing"}
            /\ Len(inner_iframes_html_list') >= Len(inner_iframes_html_list)
            /\ SubSeq(inner_iframes_html_list', 1, Len(inner_iframes_html_list))
                  = inner_iframes_html_list
            /\ visited # <<>> => outer_iframe_html' = outer_iframe_html
            /\ Len(visited') > Len(visited) =>
                  (LET f == visited'[Len(visited')].frame
                       content == LastCaptured(outer_iframe_html', inner_iframes_html_list')
                   IN IF f \in detached
                      THEN ~visited'[Len(visited')].ok /\ HasErrorDescriptor(content)
                      ELSE (retrievable[f] => content = FrameDoc(f)))]_vars
    /\ [](WalkOver =>
            \A c \in 1..Len(parent) :
                (parent[c] = 1 /\ c \notin detached) =>
                    \E m \in 2..Len(visited) : visited[m].frame = c)
    /\ [](\A m \in 1..Len(visited) : \A k \in 1..Len(visited) :
            visited[m].frame = visited[k].frame => m = k)

\* the first inner frame detached before its content() returned and has an
\* error record, and a sibling after it was captured with its document
C18_Witness ==
    /\ WalkOver
    /\ \E m, k \in 2..Len(visited) :
          /\ m < k
          /\ visited[m].frame \in detached
          /\ retrievable[visited[m].frame]
          /\ HasErrorDescriptor(Captured[m].content)
          /\ visited[k].ok
          /\ HasDocument(Captured[k].content)

----------------------------------------------------------------------------
(* C19: handlers and partial payloads *)

\* C19: no handler raises: every callback delivered, whatever its payload
\* lacks, has appended one entry to the list of its kind.
C19_EveryCallbackAppends ==
    \A i \in DOMAIN delivered :
        /\ delivered[i].seq > 0
        /\ delivered[i].seq <= Len(LogValue(LogOf(delivered[i].kind)))

----------------------------------------------------------------------------
(* C20: after browser.close() *)

\* C20: once browser.close() has returned no callback runs and the three
\* lists never change again, so the lists written to the files are the
\* lists the summary classifies, entry for entry and in the same order.
C20_LogsFrozenAfterClose ==
    /\ [][(pc \in {"Writing", "Summary", "Complete"}) =>
            /\ alerts' = alerts
            /\ console_messages' = console_messages
            /\ network_requests_raw' = network_requests_raw
            /\ delivered' = delivered]_vars
    /\ [](pc \in {"Summary", "Complete"} =>
            /\ files.written
            /\ files.console = console_messages
            /\ files.network = network_requests_raw
            /\ alerts # <<>> => files.alerts = alerts)
    /\ [](pc = "Complete" =>
            SubSeq(stdout, 5, Len(stdout)) =
                TargetLoop(1, files.network, files.console, inner_iframes_html_list))

\* a run that ended after callbacks of all three lists arrived, one of them
\* after the walk began
C20_Witness ==
    /\ pc = "Complete"
    /\ alerts # <<>>
    /\ network_requests_raw # <<>>
    /\ at_walk_start.network < Len(network_requests_raw)

====
